---- MODULE Spec2Model ----
(***************************************************************************)
(* A model of alarm.py: the configuration store, the time scheduler, the   *)
(* timed input, the alarm cycle controller, the service loop and the menu. *)
(*                                                                         *)
(* Text (time strings, phrases, typed lines) is a sequence of one-character *)
(* strings.  Wall-clock time (datetime.now) is an integer number of ticks, *)
(* TicksPerSecond ticks to the second; the clock is observed at the        *)
(* instants of Instants only.  The console clock of timed_input            *)
(* (time.time) is counted in hundredths of a second.                       *)
(***************************************************************************)
EXTENDS Integers, Sequences, FiniteSets, TLC

VARIABLES
    store,          \* alarm_config.json: Absent, or the record the file holds
    ext_store,      \* history: the file as the last write from outside
                    \* run_alarm_service (the menu, an editor, main) left it
    msvcrt,         \* TRUE iff the msvcrt module could be imported (line 9)
    user_lines,     \* the lines the user at the console may enter at a challenge
    now,            \* datetime.now(), in ticks
    svc_pc,         \* position of main / run_alarm_service
    svc_exit,       \* how the process ended, "none" while it runs
    config,         \* run_alarm_service's parameter
    alarm_time,     \* run_alarm_service's alarm_time, minutes after midnight
    target,         \* run_alarm_service's target
    wake,           \* end of the current time.sleep (wait_until, countdown_timer)
    fresh_config,   \* run_alarm_service's fresh_config
    n_sched,        \* history: calls of next_alarm_datetime
    n_reload,       \* history: calls of load_config made by run_alarm_service
    cyc_pc,         \* position of perform_alarm_cycle
    confirmation_phrase, wait_minutes, confirm_timeout,  \* its locals
    response,       \* its local response
    n_trigger,      \* history: webbrowser.open calls of the current cycle
    n_fail,         \* history: failed challenges of the current cycle
    end_ts,         \* countdown_timer's end_ts, in ticks
    browser,        \* the last webbrowser.open: the URL and whether it opened
    ti_pc,          \* position of timed_input
    timeout_seconds,\* timed_input's parameter, in hundredths of a second
    clock,          \* time.time(), in hundredths of a second
    start,          \* timed_input's start
    ti_wake,        \* end of the current time.sleep of timed_input
    buffer,         \* timed_input's buffer
    kbq,            \* keys typed and not yet read from the console
    ti_result,      \* timed_input's return value
    term_at,        \* history: clock when the first line terminator was typed
    typed,          \* history: every key typed so far
    menu_config,    \* prompt_update's config
    choice,         \* prompt_update's choice, "" outside the menu
    entered,        \* the line entered at the prompt of the option, stripped
    printed         \* the message the last option printed

svc_vars == <<svc_pc, svc_exit, config, alarm_time, target, wake, fresh_config,
              n_sched, n_reload>>
cyc_vars == <<cyc_pc, confirmation_phrase, wait_minutes, confirm_timeout,
              response, n_trigger, n_fail, end_ts, browser>>
ti_vars  == <<ti_pc, timeout_seconds, clock, start, ti_wake, buffer, kbq,
              ti_result, term_at, typed>>
env_vars == <<msvcrt, user_lines>>
menu_vars == <<menu_config, choice, entered, printed>>
vars == <<store, ext_store, env_vars, menu_vars, now, svc_vars, cyc_vars, ti_vars>>

(***************************************************************************)
(* Bounds of the model.                                                    *)
(***************************************************************************)
TicksPerSecond == 2     \* resolution of the wall clock
MaxDay == 1             \* the wall clock is observed on days 0..MaxDay
MaxLine == 2            \* longest line typed at the challenge
MaxReplays == 2         \* most failed challenges in one cycle
MaxKeys == 3            \* most keys typed during one timed_input
MaxTimeout == 7         \* longest timeout given to timed_input, in 1/100 s
MaxClock == 13          \* the console clock is observed up to MaxClock

Second == TicksPerSecond
Minute == 60 * Second
Day    == 24 * 60 * Minute

(***************************************************************************)
(* Text.                                                                   *)
(***************************************************************************)
None == <<"None">>      \* Python's None where a text is expected

IsSpace(c) == c \in {" ", "\t", "\n", "\r"}

RECURSIVE lstrip(_)
lstrip(s) == IF s # <<>> /\ IsSpace(Head(s)) THEN lstrip(Tail(s)) ELSE s

RECURSIVE rstrip(_)
rstrip(s) == IF s # <<>> /\ IsSpace(s[Len(s)])
             THEN rstrip(SubSeq(s, 1, Len(s) - 1)) ELSE s

\* str.strip(): leading and trailing whitespace removed
strip(s) == rstrip(lstrip(s))

Digits == {"0", "1", "2", "3", "4", "5", "6", "7", "8", "9"}
DigitVal(c) == CASE c = "0" -> 0 [] c = "1" -> 1 [] c = "2" -> 2 [] c = "3" -> 3
                 [] c = "4" -> 4 [] c = "5" -> 5 [] c = "6" -> 6 [] c = "7" -> 7
                 [] c = "8" -> 8 [] c = "9" -> 9

IsNumber(s) == Len(s) \in {1, 2} /\ \A i \in 1..Len(s) : s[i] \in Digits
NumVal(s) == IF Len(s) = 1 THEN DigitVal(s[1])
             ELSE 10 * DigitVal(s[1]) + DigitVal(s[2])

\* the digits at the front of s
RECURSIVE DigitRun(_)
DigitRun(s) == IF s # <<>> /\ Head(s) \in Digits
               THEN <<Head(s)>> \o DigitRun(Tail(s)) ELSE <<>>

ParseError == -1        \* parse_time_string raised ValueError

\* strptime(value, "%H:%M"): hour 0..23 and minute 0..59, one or two digits
\* each, and nothing else
strptime_HM(v) ==
    IF \E i \in 1..Len(v) : v[i] = ":"
    THEN LET i == CHOOSE k \in 1..Len(v) :
                      v[k] = ":" /\ \A j \in 1..(k - 1) : v[j] # ":"
             h == SubSeq(v, 1, i - 1)
             m == SubSeq(v, i + 1, Len(v))
         IN  IF IsNumber(h) /\ IsNumber(m) /\ NumVal(h) <= 23 /\ NumVal(m) <= 59
             THEN 60 * NumVal(h) + NumVal(m) ELSE ParseError
    ELSE ParseError

\* strptime(value, "%I:%M %p") when spaced, strptime(value, "%I:%M%p")
\* otherwise: hour 1..12, minute 0..59, AM or PM in either case; the blank of
\* the first format stands for one or more whitespace characters
strptime_IMp(v, spaced) ==
    IF \E i \in 1..Len(v) : v[i] = ":"
    THEN LET i == CHOOSE k \in 1..Len(v) :
                      v[k] = ":" /\ \A j \in 1..(k - 1) : v[j] # ":"
             h == SubSeq(v, 1, i - 1)
             rest == SubSeq(v, i + 1, Len(v))
             m == DigitRun(rest)
             after == SubSeq(rest, Len(m) + 1, Len(rest))
             p == lstrip(after)
             gap == Len(after) - Len(p)
             pm == Len(p) = 2 /\ p[1] \in {"p", "P"}
         IN  IF /\ IsNumber(h) /\ NumVal(h) \in 1..12
                /\ IsNumber(m) /\ NumVal(m) <= 59
                /\ Len(p) = 2 /\ p[1] \in {"a", "A", "p", "P"} /\ p[2] \in {"m", "M"}
                /\ (IF spaced THEN gap >= 1 ELSE gap = 0)
             THEN 60 * ((NumVal(h) % 12) + (IF pm THEN 12 ELSE 0)) + NumVal(m)
             ELSE ParseError
    ELSE ParseError

\* the time of day as minutes after midnight, or ParseError
parse_time_string(value) ==
    LET v == strip(value)
    IN  IF strptime_HM(v) # ParseError THEN strptime_HM(v)
        ELSE IF strptime_IMp(v, TRUE) # ParseError THEN strptime_IMp(v, TRUE)
        ELSE strptime_IMp(v, FALSE)

(***************************************************************************)
(* The configuration store.                                                *)
(***************************************************************************)
T_0700  == <<"0", "7", ":", "0", "0">>
T_730PM == <<"7", ":", "3", "0", " ", "P", "M">>
T_2599  == <<"2", "5", ":", "9", "9">>

DEFAULT_CONFIG ==
    [enabled |-> FALSE,
     alarm_time |-> T_0700,
     youtube_url |->
        <<"h", "t", "t", "p", "s", ":", "/", "/", "w", "w", "w", ".", "y",
          "o", "u", "t", "u", "b", "e", ".", "c", "o", "m", "/",
          "w", "a", "t", "c", "h", "?", "v", "=", "d", "Q", "w",
          "4", "w", "9", "W", "g", "X", "c", "Q">>,
     confirmation_phrase |->
        <<"I", " ", "a", "m", " ", "a", "w", "a", "k", "e", " ", "a", "n", "d", " ", "r", "e", "a", "d", "y", ".">>,
     initial_wait_minutes |-> 5,
     confirmation_timeout_seconds |-> 60]

Absent == [absent |-> TRUE]     \* CONFIG_PATH does not exist
Exists(file) == "absent" \notin DOMAIN file

\* The files an editor or the menu, running beside the service, may leave:
\* every field takes a value of each kind the code tells apart; the last file
\* holds only one of the six fields.
ExternalRecords ==
    { DEFAULT_CONFIG,
      [enabled |-> TRUE, alarm_time |-> T_730PM, youtube_url |-> <<"u", "2">>,
       confirmation_phrase |-> <<"a">>, initial_wait_minutes |-> 0,
       confirmation_timeout_seconds |-> 0],
      [enabled |-> TRUE, alarm_time |-> T_0700, youtube_url |-> <<"u", "3">>,
       confirmation_phrase |-> <<" ", "A">>, initial_wait_minutes |-> -1,
       confirmation_timeout_seconds |-> 2],
      [enabled |-> TRUE, alarm_time |-> T_2599, youtube_url |-> <<"u", "2">>,
       confirmation_phrase |-> <<"a">>, initial_wait_minutes |-> 0,
       confirmation_timeout_seconds |-> 1],
      [enabled |-> TRUE] }

StoreStates == {Absent} \cup ExternalRecords

\* dict.get(key, default) on the merged record
Field(file, key) == IF key \in DOMAIN file THEN file[key] ELSE DEFAULT_CONFIG[key]

\* the record load_config returns for the file
load_config(file) ==
    IF ~Exists(file) THEN DEFAULT_CONFIG
    ELSE [enabled |-> Field(file, "enabled"),
          alarm_time |-> Field(file, "alarm_time"),
          youtube_url |-> Field(file, "youtube_url"),
          confirmation_phrase |-> Field(file, "confirmation_phrase"),
          initial_wait_minutes |-> Field(file, "initial_wait_minutes"),
          confirmation_timeout_seconds |-> Field(file, "confirmation_timeout_seconds")]

\* load_config saving the merged record back
load_config_file_resave(file) == load_config(file)

\* lines 26-28 saving a record that is not the one returned
load_config_file_enabled(file) ==
    IF ~Exists(file) THEN [DEFAULT_CONFIG EXCEPT !.enabled = TRUE] ELSE file

\* the file after load_config: created with the defaults when absent
load_config_file(file) == IF ~Exists(file) THEN DEFAULT_CONFIG ELSE file

(***************************************************************************)
(* The time scheduler.                                                     *)
(***************************************************************************)
Max(a, b) == IF a >= b THEN a ELSE b
Min(a, b) == IF a <= b THEN a ELSE b

\* minutes after midnight of the sample alarm times
SampleMinutes == {parse_time_string(T_0700), parse_time_string(T_730PM)}

\* The instants at which the wall clock is observed: around each sample alarm
\* time of each day, 90 s before, one tick before, on it and 30 s after.
Instants ==
    { d * Day + m * Minute + o :
        d \in 0..MaxDay, m \in SampleMinutes,
        o \in {0 - 90 * Second, 0 - 1, 0, 30 * Second} }

FirstInstant == CHOOSE t \in Instants : \A u \in Instants : t <= u
LastInstant  == CHOOSE t \in Instants : \A u \in Instants : u <= t
NextInstant(t) == CHOOSE u \in Instants :
                      u > t /\ \A w \in Instants : w > t => u <= w

\* line 55 with < for <=
next_alarm_datetime_lt(time_of_day, at) ==
    LET candidate == (at \div Day) * Day + time_of_day * Minute
    IN  IF candidate < at THEN candidate + Day ELSE candidate

\* line 55 comparing minutes: today's occurrence is kept while the clock is
\* within the minute of the alarm
next_alarm_datetime_same_minute(time_of_day, at) ==
    LET candidate == (at \div Day) * Day + time_of_day * Minute
    IN  IF candidate + Minute <= at THEN candidate + Day ELSE candidate

\* datetime.combine(now.date(), alarm_time), rolled to the next day when it
\* is not after now; at is the reading of datetime.now()
next_alarm_datetime(time_of_day, at) ==
    LET candidate == (at \div Day) * Day + time_of_day * Minute
    IN  IF candidate <= at THEN candidate + Day ELSE candidate

\* line 66 without the cap of 60 seconds
sleep_for_uncapped(remaining) == Max(1 * Second, remaining)

\* wait_until's sleep_for, in ticks
sleep_for(remaining) == Max(1 * Second, Min(remaining, 60 * Second))

(***************************************************************************)
(* The alarm cycle controller.                                             *)
(***************************************************************************)
LineChars == {"a", "A", " "}

RECURSIVE LinesOf(_)
LinesOf(n) == IF n = 0 THEN {<<>>}
              ELSE LinesOf(n - 1) \cup
                   {Append(l, c) : l \in LinesOf(n - 1), c \in LineChars}

\* what the user may enter at a challenge: the lines of user_lines, the phrase
\* shown on the screen, and that phrase between blanks
Lines(phrase) == user_lines \cup {phrase, <<" ">> \o phrase \o <<" ">>}

\* which of its three ways timed_input takes
timed_input_branch(timeout, has_msvcrt) ==
    IF timeout <= 0 THEN "input"
    ELSE IF ~has_msvcrt THEN "fallback"
    ELSE "poll"

\* what timed_input may return: a line, or None from the polling loop alone
\* (the loop itself is followed step by step under SpecInput)
timed_input_returns(timeout, has_msvcrt, phrase) ==
    Lines(phrase) \cup
    (IF timed_input_branch(timeout, has_msvcrt) = "poll" THEN {None} ELSE {})

\* line 132 without the strip of the response
dismisses_unstripped(resp, phrase) == resp # None /\ resp = phrase

\* the test of line 132
dismisses(resp, phrase) == resp # None /\ strip(resp) = phrase

\* lines 116-118 without the max(0, ...) of line 117
perform_alarm_cycle_enter_wait_unclamped ==
    /\ svc_pc = "cycle" /\ cyc_pc = "enter"
    /\ confirmation_phrase' = strip(fresh_config.confirmation_phrase)
    /\ wait_minutes' = fresh_config.initial_wait_minutes
    /\ confirm_timeout' = Max(1, fresh_config.confirmation_timeout_seconds)
    /\ n_trigger' = 0 /\ n_fail' = 0
    /\ cyc_pc' = "triggered"
    /\ UNCHANGED <<store, ext_store, env_vars, menu_vars, now, svc_vars, response,
                   end_ts, browser, ti_vars>>

\* lines 116-118 without the max(1, ...) of line 118
perform_alarm_cycle_enter_timeout_unclamped ==
    /\ svc_pc = "cycle" /\ cyc_pc = "enter"
    /\ confirmation_phrase' = strip(fresh_config.confirmation_phrase)
    /\ wait_minutes' = Max(0, fresh_config.initial_wait_minutes)
    /\ confirm_timeout' = fresh_config.confirmation_timeout_seconds
    /\ n_trigger' = 0 /\ n_fail' = 0
    /\ cyc_pc' = "triggered"
    /\ UNCHANGED <<store, ext_store, env_vars, menu_vars, now, svc_vars, response,
                   end_ts, browser, ti_vars>>

\* lines 116-118
perform_alarm_cycle_enter ==
    /\ svc_pc = "cycle" /\ cyc_pc = "enter"
    /\ confirmation_phrase' = strip(fresh_config.confirmation_phrase)
    /\ wait_minutes' = Max(0, fresh_config.initial_wait_minutes)
    /\ confirm_timeout' = Max(1, fresh_config.confirmation_timeout_seconds)
    /\ n_trigger' = 0 /\ n_fail' = 0
    /\ cyc_pc' = "triggered"
    /\ UNCHANGED <<store, ext_store, env_vars, menu_vars, now, svc_vars, response, end_ts,
                   browser, ti_vars>>

\* lines 121-122 with the cycle given up when the URL could not be opened
perform_alarm_cycle_trigger_fatal ==
    /\ svc_pc = "cycle" /\ cyc_pc = "triggered"
    /\ \E ok \in BOOLEAN :
         /\ browser' = [url |-> fresh_config.youtube_url, ok |-> ok]
         /\ IF ok THEN cyc_pc' = "ack_wait" /\ svc_pc' = svc_pc
                 ELSE cyc_pc' = "dismissed" /\ svc_pc' = "reload2"
    /\ n_trigger' = n_trigger + 1
    /\ UNCHANGED <<store, ext_store, env_vars, menu_vars, now, svc_exit, config,
                   alarm_time, target, wake, fresh_config, n_sched, n_reload,
                   confirmation_phrase, wait_minutes, confirm_timeout, response,
                   n_fail, end_ts, ti_vars>>

\* TRIGGERED, lines 121-122: the result of webbrowser.open is not looked at
perform_alarm_cycle_trigger ==
    /\ svc_pc = "cycle" /\ cyc_pc = "triggered"
    /\ \E ok \in BOOLEAN : browser' = [url |-> fresh_config.youtube_url, ok |-> ok]
    /\ n_trigger' = n_trigger + 1
    /\ cyc_pc' = "ack_wait"
    /\ UNCHANGED <<store, ext_store, env_vars, menu_vars, now, svc_vars, confirmation_phrase,
                   wait_minutes, confirm_timeout, response, n_fail, end_ts, ti_vars>>

\* ACK_WAIT, lines 123-126: wait_for_initial_input returns once the user has
\* entered a line; countdown_timer is then called when wait_minutes is not 0
perform_alarm_cycle_ack ==
    /\ svc_pc = "cycle" /\ cyc_pc = "ack_wait"
    /\ IF wait_minutes # 0
       THEN /\ end_ts' = now + wait_minutes * 60 * Second
            /\ cyc_pc' = "countdown"
       ELSE /\ end_ts' = end_ts
            /\ cyc_pc' = "challenge"
    /\ UNCHANGED <<store, ext_store, env_vars, menu_vars, now, svc_vars, confirmation_phrase,
                   wait_minutes, confirm_timeout, response, n_trigger, n_fail,
                   browser, ti_vars>>

\* COUNTDOWN, lines 73-79: one turn of countdown_timer's loop
countdown_timer ==
    /\ svc_pc = "cycle" /\ cyc_pc = "countdown"
    /\ LET remaining == IF end_ts > now THEN (end_ts - now) \div Second ELSE 0
       IN  IF remaining <= 0
           THEN cyc_pc' = "challenge" /\ wake' = wake /\ end_ts' = 0
           ELSE /\ cyc_pc' = "countdown_sleep"
                /\ wake' = now + 1 * Second
                /\ end_ts' = end_ts
    /\ UNCHANGED <<store, ext_store, env_vars, menu_vars, now, svc_pc, svc_exit, config,
                   alarm_time, target, fresh_config, n_sched, n_reload,
                   confirmation_phrase, wait_minutes, confirm_timeout, response,
                   n_trigger, n_fail, browser, ti_vars>>

\* line 79: time.sleep(1) is over
countdown_timer_wake ==
    /\ svc_pc = "cycle" /\ cyc_pc = "countdown_sleep"
    /\ now >= wake
    /\ cyc_pc' = "countdown" /\ wake' = 0
    /\ UNCHANGED <<store, ext_store, env_vars, menu_vars, now, svc_pc, svc_exit, config,
                   alarm_time, target, fresh_config, n_sched, n_reload,
                   confirmation_phrase, wait_minutes, confirm_timeout, response,
                   n_trigger, n_fail, end_ts, browser, ti_vars>>

\* lines 128-136 with a retry limit: the cycle gives up at the second failure
perform_alarm_cycle_challenge_limit ==
    /\ svc_pc = "cycle" /\ cyc_pc = "challenge"
    /\ \E resp \in timed_input_returns(confirm_timeout, msvcrt, confirmation_phrase) :
         /\ response' = resp
         /\ IF dismisses(resp, confirmation_phrase) \/ n_fail >= 1
            THEN /\ cyc_pc' = "dismissed"
                 /\ svc_pc' = "reload2"
                 /\ n_fail' = n_fail
            ELSE /\ n_fail < MaxReplays
                 /\ cyc_pc' = "triggered"
                 /\ svc_pc' = svc_pc
                 /\ n_fail' = n_fail + 1
    /\ UNCHANGED <<store, ext_store, env_vars, menu_vars, now, svc_exit, config, alarm_time,
                   target, wake, fresh_config, n_sched, n_reload,
                   confirmation_phrase, wait_minutes, confirm_timeout, n_trigger,
                   end_ts, browser, ti_vars>>

\* lines 128-136 with the file looked at after a failed response: the cycle
\* is given up when the file says disabled
perform_alarm_cycle_challenge_abort_disabled ==
    /\ svc_pc = "cycle" /\ cyc_pc = "challenge"
    /\ \E resp \in timed_input_returns(confirm_timeout, msvcrt, confirmation_phrase) :
         /\ response' = resp
         /\ IF dismisses(resp, confirmation_phrase) \/ ~load_config(store).enabled
            THEN /\ cyc_pc' = "dismissed"
                 /\ svc_pc' = "reload2"
                 /\ n_fail' = n_fail
            ELSE /\ n_fail < MaxReplays
                 /\ cyc_pc' = "triggered"
                 /\ svc_pc' = svc_pc
                 /\ n_fail' = n_fail + 1
    /\ UNCHANGED <<store, ext_store, env_vars, menu_vars, now, svc_exit, config,
                   alarm_time, target, wake, fresh_config, n_sched, n_reload,
                   confirmation_phrase, wait_minutes, confirm_timeout, n_trigger,
                   end_ts, browser, ti_vars>>

\* CHALLENGE, lines 128-136: timed_input returns resp; the cycle returns to
\* run_alarm_service on a match and replays otherwise
perform_alarm_cycle_challenge ==
    /\ svc_pc = "cycle" /\ cyc_pc = "challenge"
    /\ \E resp \in timed_input_returns(confirm_timeout, msvcrt, confirmation_phrase) :
         /\ response' = resp
         /\ IF dismisses(resp, confirmation_phrase)
            THEN /\ cyc_pc' = "dismissed"
                 /\ svc_pc' = "reload2"
                 /\ n_fail' = n_fail
            ELSE /\ n_fail < MaxReplays
                 /\ cyc_pc' = "triggered"
                 /\ svc_pc' = svc_pc
                 /\ n_fail' = n_fail + 1
    /\ UNCHANGED <<store, ext_store, env_vars, menu_vars, now, svc_exit, config, alarm_time,
                   target, wake, fresh_config, n_sched, n_reload,
                   confirmation_phrase, wait_minutes, confirm_timeout, n_trigger,
                   end_ts, browser, ti_vars>>

(***************************************************************************)
(* The service loop.                                                       *)
(***************************************************************************)
\* no call of perform_alarm_cycle is in progress: its locals do not exist
NoBrowser == [url |-> <<>>, ok |-> FALSE]
NoCycle ==
    /\ cyc_pc = "idle" /\ confirmation_phrase = <<>> /\ wait_minutes = 0
    /\ confirm_timeout = 0 /\ response = None /\ n_trigger = 0 /\ n_fail = 0
    /\ end_ts = 0 /\ browser = NoBrowser

\* prompt_update is not running: its locals do not exist
NoMenu ==
    /\ menu_config = DEFAULT_CONFIG /\ choice = "" /\ entered = <<>> /\ printed = ""

\* prompt_update has returned, or the process has ended
EndMenu ==
    /\ menu_config' = DEFAULT_CONFIG /\ choice' = "" /\ entered' = <<>>
    /\ printed' = ""

\* perform_alarm_cycle has returned, or the process has ended
EndCycle ==
    /\ cyc_pc' = "idle" /\ confirmation_phrase' = <<>> /\ wait_minutes' = 0
    /\ confirm_timeout' = 0 /\ response' = None /\ n_trigger' = 0 /\ n_fail' = 0
    /\ end_ts' = 0 /\ browser' = NoBrowser

\* main, lines 250-252, started as "alarm.py start"
main ==
    /\ svc_pc = "main"
    /\ config' = load_config(store)
    /\ store' = load_config_file(store)
    /\ ext_store' = store'
    /\ svc_pc' = "entry"
    /\ UNCHANGED <<env_vars, menu_vars, now, svc_exit, alarm_time, target, wake,
                   fresh_config, n_sched, n_reload, cyc_vars, ti_vars>>

\* lines 140-145 without the test of line 140
run_alarm_service_enter_unchecked ==
    /\ svc_pc = "entry"
    /\ IF parse_time_string(config.alarm_time) = ParseError
       THEN svc_pc' = "done" /\ svc_exit' = "ValueError"
                             /\ alarm_time' = alarm_time
       ELSE svc_pc' = "schedule" /\ svc_exit' = svc_exit
                                 /\ alarm_time' = parse_time_string(config.alarm_time)
    /\ UNCHANGED <<store, ext_store, env_vars, menu_vars, now, config, target, wake,
                   fresh_config, n_sched, n_reload, cyc_vars, ti_vars>>

\* lines 140-145 with the ValueError swallowed and the default time used
run_alarm_service_enter_lenient ==
    /\ svc_pc = "entry"
    /\ IF ~config.enabled
       THEN svc_pc' = "done" /\ svc_exit' = "disabled_at_start"
                             /\ alarm_time' = alarm_time
       ELSE IF parse_time_string(config.alarm_time) = ParseError
       THEN svc_pc' = "schedule" /\ svc_exit' = svc_exit
                                 /\ alarm_time' = parse_time_string(T_0700)
       ELSE svc_pc' = "schedule" /\ svc_exit' = svc_exit
                                 /\ alarm_time' = parse_time_string(config.alarm_time)
    /\ UNCHANGED <<store, ext_store, env_vars, menu_vars, now, config, target, wake,
                   fresh_config, n_sched, n_reload, cyc_vars, ti_vars>>

\* lines 140-145: return when disabled, abort on ValueError, else enter the loop
run_alarm_service_enter ==
    /\ svc_pc = "entry"
    /\ IF ~config.enabled
       THEN svc_pc' = "done" /\ svc_exit' = "disabled_at_start"
                             /\ alarm_time' = alarm_time
       ELSE IF parse_time_string(config.alarm_time) = ParseError
       THEN svc_pc' = "done" /\ svc_exit' = "ValueError"
                             /\ alarm_time' = alarm_time
       ELSE svc_pc' = "schedule" /\ svc_exit' = svc_exit
                                 /\ alarm_time' = parse_time_string(config.alarm_time)
    /\ UNCHANGED <<store, ext_store, env_vars, menu_vars, now, config, target, wake,
                   fresh_config, n_sched, n_reload, cyc_vars, ti_vars>>

\* lines 148-150 with alarm_time parsed again from the reloaded record
run_alarm_service_schedule_reparse ==
    /\ svc_pc = "schedule"
    /\ alarm_time' = IF n_reload > 0
                        /\ parse_time_string(fresh_config.alarm_time) # ParseError
                     THEN parse_time_string(fresh_config.alarm_time)
                     ELSE alarm_time
    /\ target' = next_alarm_datetime(alarm_time', now)
    /\ n_sched' = n_sched + 1
    /\ svc_pc' = "wait"
    /\ UNCHANGED <<store, ext_store, env_vars, menu_vars, now, svc_exit, config,
                   wake, fresh_config, n_reload, cyc_vars, ti_vars>>

\* lines 148-150: compute the next occurrence and call wait_until
run_alarm_service_schedule ==
    /\ svc_pc = "schedule"
    /\ target' = next_alarm_datetime(alarm_time, now)
    /\ n_sched' = n_sched + 1
    /\ svc_pc' = "wait"
    /\ UNCHANGED <<store, ext_store, env_vars, menu_vars, now, svc_exit, config, alarm_time,
                   wake, fresh_config, n_reload, cyc_vars, ti_vars>>

\* lines 62-67: one turn of wait_until's loop, up to the call of time.sleep
wait_until ==
    /\ svc_pc = "wait"
    /\ IF now >= target
       THEN svc_pc' = "reload1" /\ wake' = wake
       ELSE svc_pc' = "sleep" /\ wake' = now + sleep_for(target - now)
    /\ UNCHANGED <<store, ext_store, env_vars, menu_vars, now, svc_exit, config, alarm_time,
                   target, fresh_config, n_sched, n_reload, cyc_vars, ti_vars>>

\* line 67: time.sleep(sleep_for) is over
wait_until_wake ==
    /\ svc_pc = "sleep"
    /\ now >= wake
    /\ svc_pc' = "wait" /\ wake' = 0
    /\ UNCHANGED <<store, ext_store, env_vars, menu_vars, now, svc_exit, config, alarm_time,
                   target, fresh_config, n_sched, n_reload, cyc_vars, ti_vars>>

\* lines 152-157 testing the stale config of line 139 instead of fresh_config
run_alarm_service_reload1_stale ==
    /\ svc_pc = "reload1"
    /\ fresh_config' = load_config(store)
    /\ store' = load_config_file(store)
    /\ n_reload' = n_reload + 1
    /\ IF ~config.enabled
       THEN svc_pc' = "done" /\ svc_exit' = "disabled_while_waiting"
                             /\ cyc_pc' = cyc_pc
       ELSE svc_pc' = "cycle" /\ svc_exit' = svc_exit /\ cyc_pc' = "enter"
    /\ UNCHANGED <<ext_store, env_vars, menu_vars, now, config, alarm_time, target, wake,
                   n_sched, confirmation_phrase, wait_minutes, confirm_timeout,
                   response, n_trigger, n_fail, end_ts, browser, ti_vars>>

\* lines 152-157: the reload after the wait
run_alarm_service_reload1 ==
    /\ svc_pc = "reload1"
    /\ fresh_config' = load_config(store)
    /\ store' = load_config_file(store)
    /\ n_reload' = n_reload + 1
    /\ IF ~fresh_config'.enabled
       THEN svc_pc' = "done" /\ svc_exit' = "disabled_while_waiting"
                             /\ cyc_pc' = cyc_pc
       ELSE svc_pc' = "cycle" /\ svc_exit' = svc_exit /\ cyc_pc' = "enter"
    /\ UNCHANGED <<ext_store, env_vars, menu_vars, now, config, alarm_time, target, wake,
                   n_sched, confirmation_phrase, wait_minutes, confirm_timeout,
                   response, n_trigger, n_fail, end_ts, browser, ti_vars>>

\* lines 159-163 without the test of line 160
run_alarm_service_reload2_unchecked ==
    /\ svc_pc = "reload2"
    /\ fresh_config' = load_config(store)
    /\ store' = load_config_file(store)
    /\ n_reload' = n_reload + 1
    /\ svc_pc' = "schedule" /\ svc_exit' = svc_exit
    /\ EndCycle
    /\ UNCHANGED <<ext_store, env_vars, menu_vars, now, config, alarm_time, target, wake,
                   n_sched, ti_vars>>

\* lines 159-163: the reload after the cycle has returned
run_alarm_service_reload2 ==
    /\ svc_pc = "reload2"
    /\ fresh_config' = load_config(store)
    /\ store' = load_config_file(store)
    /\ n_reload' = n_reload + 1
    /\ IF ~fresh_config'.enabled
       THEN svc_pc' = "done" /\ svc_exit' = "disabled_after_completion"
       ELSE svc_pc' = "schedule" /\ svc_exit' = svc_exit
    /\ EndCycle
    /\ UNCHANGED <<ext_store, env_vars, menu_vars, now, config, alarm_time, target, wake,
                   n_sched, ti_vars>>

\* lines 258-261: Ctrl-C ends the process wherever it is, and with it the
\* memory of the process
KeyboardInterrupt ==
    /\ svc_pc \notin {"main", "done"}
    /\ svc_pc' = "done" /\ svc_exit' = "KeyboardInterrupt"
    /\ config' = DEFAULT_CONFIG /\ fresh_config' = DEFAULT_CONFIG
    /\ alarm_time' = 0 /\ target' = 0 /\ wake' = 0
    /\ EndCycle /\ EndMenu
    /\ UNCHANGED <<store, ext_store, env_vars, now, n_sched, n_reload, ti_vars>>

(***************************************************************************)
(* The environment of the service: the wall clock, and the menu or an      *)
(* editor writing the file from outside.                                   *)
(***************************************************************************)
Tick ==
    /\ svc_pc # "done"
    /\ now < LastInstant
    /\ now' = NextInstant(now)
    /\ UNCHANGED <<store, ext_store, env_vars, menu_vars, svc_vars, cyc_vars, ti_vars>>

\* the file is rewritten from outside
ExternalWrite ==
    /\ svc_pc # "done"
    /\ \E file \in ExternalRecords : file # store /\ store' = file /\ ext_store' = file
    /\ UNCHANGED <<env_vars, menu_vars, now, svc_vars, cyc_vars, ti_vars>>

\* the file is deleted from outside
ExternalDelete ==
    /\ svc_pc # "done"
    /\ Exists(store)
    /\ store' = Absent /\ ext_store' = Absent
    /\ UNCHANGED <<env_vars, menu_vars, now, svc_vars, cyc_vars, ti_vars>>

ti_idle ==
    /\ ti_pc = "idle" /\ timeout_seconds = 0 /\ clock = 0 /\ start = 0
    /\ ti_wake = 0 /\ buffer = <<>> /\ kbq = <<>> /\ ti_result = None
    /\ term_at = -1 /\ typed = <<>>

Init ==
    /\ store \in StoreStates /\ ext_store = store
    /\ msvcrt \in BOOLEAN
    /\ user_lines = {<<>>} /\ NoMenu
    /\ now = FirstInstant
    /\ svc_pc = "main" /\ svc_exit = "none"
    /\ config = DEFAULT_CONFIG /\ fresh_config = DEFAULT_CONFIG
    /\ alarm_time = 0 /\ target = 0 /\ wake = 0 /\ n_sched = 0 /\ n_reload = 0
    /\ NoCycle
    /\ ti_idle

Next ==
    \/ main
    \/ run_alarm_service_enter
    \/ run_alarm_service_schedule
    \/ wait_until
    \/ wait_until_wake
    \/ run_alarm_service_reload1
    \/ perform_alarm_cycle_enter
    \/ perform_alarm_cycle_trigger
    \/ perform_alarm_cycle_ack
    \/ countdown_timer
    \/ countdown_timer_wake
    \/ perform_alarm_cycle_challenge
    \/ run_alarm_service_reload2
    \/ KeyboardInterrupt
    \/ Tick
    \/ ExternalWrite
    \/ ExternalDelete

Spec == Init /\ [][Next]_vars

(***************************************************************************)
(* perform_alarm_cycle on its own: called with every sample record, at a   *)
(* console where any line of at most MaxLine characters may be entered.    *)
(***************************************************************************)
InitCycle ==
    /\ store = DEFAULT_CONFIG /\ ext_store = store
    /\ msvcrt \in BOOLEAN
    /\ user_lines = LinesOf(MaxLine) /\ NoMenu
    /\ now = FirstInstant
    /\ svc_pc = "cycle" /\ svc_exit = "none"
    /\ config = DEFAULT_CONFIG
    /\ fresh_config \in {load_config(file) : file \in ExternalRecords}
    /\ alarm_time = 0 /\ target = 0 /\ wake = 0 /\ n_sched = 0 /\ n_reload = 0
    /\ cyc_pc = "enter" /\ confirmation_phrase = <<>> /\ wait_minutes = 0
    /\ confirm_timeout = 0 /\ response = None /\ n_trigger = 0 /\ n_fail = 0
    /\ end_ts = 0 /\ browser = NoBrowser
    /\ ti_idle

NextCycle ==
    \/ perform_alarm_cycle_enter
    \/ perform_alarm_cycle_trigger
    \/ perform_alarm_cycle_ack
    \/ countdown_timer
    \/ countdown_timer_wake
    \/ perform_alarm_cycle_challenge
    \/ Tick

SpecCycle == InitCycle /\ [][NextCycle]_vars

(***************************************************************************)
(* next_alarm_datetime on its own: every alarm time on the hour or the     *)
(* half hour, read at every instant.                                       *)
(***************************************************************************)
SchedTimes == {60 * h + m : h \in 0..23, m \in {0, 30}}

InitSched ==
    /\ store = DEFAULT_CONFIG /\ ext_store = store
    /\ msvcrt = TRUE /\ user_lines = {<<>>} /\ NoMenu
    /\ now \in Instants
    /\ svc_pc = "schedule" /\ svc_exit = "none"
    /\ config = DEFAULT_CONFIG /\ fresh_config = DEFAULT_CONFIG
    /\ alarm_time \in SchedTimes
    /\ target = 0 /\ wake = 0 /\ n_sched = 0 /\ n_reload = 0
    /\ NoCycle
    /\ ti_idle

NextSched == run_alarm_service_schedule

SpecSched == InitSched /\ [][NextSched]_vars

(***************************************************************************)
(* timed_input on its own, step by step.  The console clock counts          *)
(* hundredths of a second; time.sleep(0.05) lasts exactly PollInterval and *)
(* the statements between two sleeps take no time, so the clock moves only *)
(* while timed_input sleeps or is blocked in input().                      *)
(***************************************************************************)
PollInterval == 5       \* time.sleep(0.05)
BS == "BS"              \* the backspace key, "\b"
Keys == {"a", " ", BS, "\r"}
IsTerminator(c) == c \in {"\r", "\n"}

\* lines 99-104: the buffer after a key that is no terminator
edit(buf, char) ==
    IF char = BS
    THEN IF buf # <<>> THEN SubSeq(buf, 1, Len(buf) - 1) ELSE buf
    ELSE Append(buf, char)

\* the line a sequence of keys without terminator leaves on the screen
RECURSIVE EditLine(_)
EditLine(keys) ==
    IF keys = <<>> THEN <<>>
    ELSE edit(EditLine(SubSeq(keys, 1, Len(keys) - 1)), keys[Len(keys)])

\* position of the first terminator among keys, 0 when there is none
FirstTerminator(keys) ==
    IF \E i \in 1..Len(keys) : IsTerminator(keys[i])
    THEN CHOOSE i \in 1..Len(keys) :
             IsTerminator(keys[i]) /\ \A j \in 1..(i - 1) : ~IsTerminator(keys[j])
    ELSE 0

\* line 105 with start taken anew on every turn of the loop
timed_out_restarted(at, since, timeout) == 0 >= timeout

\* the test of line 105
timed_out(at, since, timeout) == (at - since) >= timeout

\* lines 84-92
timed_input_enter ==
    /\ ti_pc = "call"
    /\ IF timed_input_branch(timeout_seconds, msvcrt) = "poll"
       THEN ti_pc' = "poll" /\ start' = clock /\ buffer' = <<>>
       ELSE ti_pc' = "input" /\ start' = start /\ buffer' = buffer
    /\ UNCHANGED <<store, ext_store, env_vars, menu_vars, now, svc_vars, cyc_vars,
                   timeout_seconds, clock, ti_wake, kbq, ti_result, term_at, typed>>

\* lines 85 and 88: input() returns the line once it has been terminated; the
\* console has applied the backspaces
timed_input_input ==
    /\ ti_pc = "input"
    /\ FirstTerminator(kbq) # 0
    /\ ti_result' = EditLine(SubSeq(kbq, 1, FirstTerminator(kbq) - 1))
    /\ kbq' = SubSeq(kbq, FirstTerminator(kbq) + 1, Len(kbq))
    /\ ti_pc' = "returned"
    /\ UNCHANGED <<store, ext_store, env_vars, menu_vars, now, svc_vars, cyc_vars,
                   timeout_seconds, clock, start, ti_wake, buffer, term_at, typed>>

\* lines 94-108: one turn of the polling loop, up to the call of time.sleep
timed_input_poll ==
    /\ ti_pc = "poll"
    /\ IF kbq # <<>> /\ IsTerminator(Head(kbq))
       THEN /\ ti_result' = buffer
            /\ ti_pc' = "returned"
            /\ kbq' = Tail(kbq)
            /\ UNCHANGED <<buffer, ti_wake>>
       ELSE /\ buffer' = IF kbq # <<>> THEN edit(buffer, Head(kbq)) ELSE buffer
            /\ kbq' = IF kbq # <<>> THEN Tail(kbq) ELSE kbq
            /\ IF timed_out(clock, start, timeout_seconds)
               THEN ti_result' = None /\ ti_pc' = "returned" /\ ti_wake' = ti_wake
               ELSE ti_result' = ti_result /\ ti_pc' = "sleep"
                    /\ ti_wake' = clock + PollInterval
    /\ UNCHANGED <<store, ext_store, env_vars, menu_vars, now, svc_vars, cyc_vars,
                   timeout_seconds, clock, start, term_at, typed>>

\* line 108: time.sleep(0.05) is over
timed_input_wake ==
    /\ ti_pc = "sleep"
    /\ clock = ti_wake
    /\ ti_pc' = "poll" /\ ti_wake' = 0
    /\ UNCHANGED <<store, ext_store, env_vars, menu_vars, now, svc_vars, cyc_vars,
                   timeout_seconds, clock, start, buffer, kbq, ti_result,
                   term_at, typed>>

\* a hundredth of a second passes while timed_input sleeps or is blocked
ClockTick ==
    /\ ti_pc \in {"sleep", "input"}
    /\ ti_pc = "sleep" => clock < ti_wake
    /\ clock < MaxClock
    /\ clock' = clock + 1
    /\ UNCHANGED <<store, ext_store, env_vars, menu_vars, now, svc_vars, cyc_vars, ti_pc,
                   timeout_seconds, start, ti_wake, buffer, kbq, ti_result,
                   term_at, typed>>

\* the user presses a key while timed_input runs
KeyPress ==
    /\ ti_pc \in {"poll", "sleep", "input"}
    /\ Len(typed) < MaxKeys
    /\ \E c \in Keys :
         /\ kbq' = Append(kbq, c)
         /\ typed' = Append(typed, c)
         /\ term_at' = IF IsTerminator(c) /\ term_at = -1 THEN clock ELSE term_at
    /\ UNCHANGED <<store, ext_store, env_vars, menu_vars, now, svc_vars, cyc_vars, ti_pc,
                   timeout_seconds, clock, start, ti_wake, buffer, ti_result>>

\* timed_input is called at clock 0 with every timeout up to MaxTimeout
InitInput ==
    /\ store = DEFAULT_CONFIG /\ ext_store = store
    /\ msvcrt \in BOOLEAN /\ user_lines = {<<>>} /\ NoMenu
    /\ now = FirstInstant
    /\ svc_pc = "cycle" /\ svc_exit = "none"
    /\ config = DEFAULT_CONFIG /\ fresh_config = DEFAULT_CONFIG
    /\ alarm_time = 0 /\ target = 0 /\ wake = 0 /\ n_sched = 0 /\ n_reload = 0
    /\ NoCycle
    /\ ti_pc = "call" /\ timeout_seconds \in 0..MaxTimeout /\ clock = 0
    /\ start = 0 /\ ti_wake = 0 /\ buffer = <<>> /\ kbq = <<>>
    /\ ti_result = None /\ term_at = -1 /\ typed = <<>>

NextInput ==
    \/ timed_input_enter
    \/ timed_input_input
    \/ timed_input_poll
    \/ timed_input_wake
    \/ ClockTick
    \/ KeyPress

SpecInput == InitInput /\ [][NextInput]_vars

(***************************************************************************)
(* wait_until on its own: called at the first instant for every target up  *)
(* to the last instant, with a clock that keeps advancing and a process    *)
(* that keeps running.                                                     *)
(***************************************************************************)
WaitTargets == {t \in Instants \cup {FirstInstant + 1, FirstInstant + 61 * Second} :
                    t <= LastInstant}

InitWait ==
    /\ store = DEFAULT_CONFIG /\ ext_store = store
    /\ msvcrt = TRUE /\ user_lines = {<<>>} /\ NoMenu
    /\ now \in {FirstInstant, NextInstant(FirstInstant)}
    /\ svc_pc = "wait" /\ svc_exit = "none"
    /\ config = DEFAULT_CONFIG /\ fresh_config = DEFAULT_CONFIG
    /\ alarm_time = 0 /\ target \in WaitTargets
    /\ wake = 0 /\ n_sched = 0 /\ n_reload = 0
    /\ NoCycle
    /\ ti_idle

NextWait ==
    \/ wait_until
    \/ wait_until_wake
    \/ Tick

SpecWait ==
    /\ InitWait /\ [][NextWait]_vars
    /\ WF_vars(wait_until) /\ WF_vars(wait_until_wake) /\ WF_vars(Tick)

(***************************************************************************)
(* The menu: main started without "start" calls prompt_update, whose loop  *)
(* reads an option, and for options 2 to 6 one more line, and acts on it.  *)
(***************************************************************************)
SUP2 == "SUP2"          \* the character superscript two
\* the characters str.isdigit accepts: the decimal digits and more
IsDigitChar(c) == c \in Digits \cup {SUP2}
isdigit(s) == s # <<>> /\ \A i \in 1..Len(s) : IsDigitChar(s[i])

\* int(s) for a stripped s: the decimal value, ParseError for the ValueError
RECURSIVE Decimal(_)
Decimal(s) == IF s = <<>> THEN 0
              ELSE 10 * Decimal(SubSeq(s, 1, Len(s) - 1)) + DigitVal(s[Len(s)])
int(s) == IF s # <<>> /\ \A i \in 1..Len(s) : s[i] \in Digits
          THEN Decimal(s) ELSE ParseError

\* the lines the user may enter at the prompts of options 2 to 6
MenuTimes   == {T_730PM, <<" ">> \o T_0700 \o <<" ">>, T_2599, <<>>}
MenuUrls    == {<<" ", "u", "2">>, <<" ">>}
MenuPhrases == {<<"a", " ">>, <<>>}
MenuMinutes == {<<"0">>, <<"1", "0">>, <<"-", "1">>, <<SUP2>>}
MenuSeconds == {<<" ", "2">>, <<"0">>, <<"a">>, <<SUP2>>}

\* save_config(config) of the menu: the file holds the record
save_config(record) == store' = record /\ ext_store' = record

\* lines 250 and 254: main started without "start"
main_prompt_update ==
    /\ svc_pc = "main"
    /\ menu_config' = load_config(store)
    /\ store' = load_config_file(store)
    /\ ext_store' = store'
    /\ svc_pc' = "menu"
    /\ UNCHANGED <<env_vars, choice, entered, printed, now, svc_exit, config,
                   alarm_time, target, wake, fresh_config, n_sched, n_reload,
                   cyc_vars, ti_vars>>

\* options 1 and anything that is no option, lines 190-191 and 245-246
prompt_update_view ==
    /\ svc_pc = "menu"
    /\ \E c \in {"1", "x"} :
         /\ choice' = c
         /\ printed' = IF c = "1" THEN "Current alarm settings:"
                       ELSE "Unknown choice, please try again."
    /\ entered' = <<>>
    /\ UNCHANGED <<store, ext_store, env_vars, menu_config, now, svc_vars,
                   cyc_vars, ti_vars>>

\* option 2 assigning config["alarm_time"] before the parse
prompt_update_set_time_assign_first ==
    /\ svc_pc = "menu"
    /\ \E line \in MenuTimes :
         LET new_time == strip(line)
         IN  /\ choice' = "2" /\ entered' = new_time
             /\ menu_config' = [menu_config EXCEPT !.alarm_time = new_time]
             /\ IF parse_time_string(new_time) = ParseError
                THEN /\ printed' = "Could not understand time."
                     /\ UNCHANGED <<store, ext_store>>
                ELSE /\ save_config(menu_config')
                     /\ printed' = "Alarm time updated."
    /\ UNCHANGED <<env_vars, now, svc_vars, cyc_vars, ti_vars>>

\* option 2, lines 192-201
prompt_update_set_time ==
    /\ svc_pc = "menu"
    /\ \E line \in MenuTimes :
         LET new_time == strip(line)
         IN  /\ choice' = "2" /\ entered' = new_time
             /\ IF parse_time_string(new_time) = ParseError
                THEN /\ printed' = "Could not understand time."
                     /\ UNCHANGED <<menu_config, store, ext_store>>
                ELSE /\ menu_config' = [menu_config EXCEPT !.alarm_time = new_time]
                     /\ save_config(menu_config')
                     /\ printed' = "Alarm time updated."
    /\ UNCHANGED <<env_vars, now, svc_vars, cyc_vars, ti_vars>>

\* option 3, lines 202-209
prompt_update_set_url ==
    /\ svc_pc = "menu"
    /\ \E line \in MenuUrls :
         LET url == strip(line)
         IN  /\ choice' = "3" /\ entered' = url
             /\ IF url # <<>>
                THEN /\ menu_config' = [menu_config EXCEPT !.youtube_url = url]
                     /\ save_config(menu_config')
                     /\ printed' = "YouTube URL updated."
                ELSE /\ printed' = "URL cannot be empty."
                     /\ UNCHANGED <<menu_config, store, ext_store>>
    /\ UNCHANGED <<env_vars, now, svc_vars, cyc_vars, ti_vars>>

\* option 4, lines 210-217
prompt_update_set_phrase ==
    /\ svc_pc = "menu"
    /\ \E line \in MenuPhrases :
         LET phrase == strip(line)
         IN  /\ choice' = "4" /\ entered' = phrase
             /\ IF phrase # <<>>
                THEN /\ menu_config' = [menu_config EXCEPT !.confirmation_phrase = phrase]
                     /\ save_config(menu_config')
                     /\ printed' = "Confirmation phrase updated."
                ELSE /\ printed' = "Phrase cannot be empty."
                     /\ UNCHANGED <<menu_config, store, ext_store>>
    /\ UNCHANGED <<env_vars, now, svc_vars, cyc_vars, ti_vars>>

\* option 5, lines 218-225; int raises ValueError on some of the lines that
\* isdigit accepts, and nothing catches it
prompt_update_set_minutes ==
    /\ svc_pc = "menu"
    /\ \E line \in MenuMinutes :
         LET minutes == strip(line)
         IN  IF isdigit(minutes) /\ int(minutes) = ParseError
             THEN /\ svc_pc' = "done" /\ svc_exit' = "ValueError in int"
                  /\ EndMenu
                  /\ UNCHANGED <<store, ext_store>>
             ELSE /\ choice' = "5" /\ entered' = minutes
                  /\ UNCHANGED <<svc_pc, svc_exit>>
                  /\ IF isdigit(minutes)
                     THEN /\ menu_config' =
                               [menu_config EXCEPT !.initial_wait_minutes = int(minutes)]
                          /\ save_config(menu_config')
                          /\ printed' = "Wait minutes updated."
                     ELSE /\ printed' = "Please enter a whole number."
                          /\ UNCHANGED <<menu_config, store, ext_store>>
    /\ UNCHANGED <<env_vars, now, config, alarm_time, target, wake, fresh_config,
                   n_sched, n_reload, cyc_vars, ti_vars>>

\* option 6 accepting every line of digits, zero included
prompt_update_set_timeout_zero ==
    /\ svc_pc = "menu"
    /\ \E line \in MenuSeconds :
         LET seconds == strip(line)
         IN  IF isdigit(seconds) /\ int(seconds) = ParseError
             THEN /\ svc_pc' = "done" /\ svc_exit' = "ValueError in int"
                  /\ EndMenu
                  /\ UNCHANGED <<store, ext_store>>
             ELSE /\ choice' = "6" /\ entered' = seconds
                  /\ UNCHANGED <<svc_pc, svc_exit>>
                  /\ IF isdigit(seconds)
                     THEN /\ menu_config' =
                               [menu_config EXCEPT
                                  !.confirmation_timeout_seconds = int(seconds)]
                          /\ save_config(menu_config')
                          /\ printed' = "Timeout updated."
                     ELSE /\ printed' = "Please enter a positive number of seconds."
                          /\ UNCHANGED <<menu_config, store, ext_store>>
    /\ UNCHANGED <<env_vars, now, config, alarm_time, target, wake, fresh_config,
                   n_sched, n_reload, cyc_vars, ti_vars>>

\* option 6, lines 226-233
prompt_update_set_timeout ==
    /\ svc_pc = "menu"
    /\ \E line \in MenuSeconds :
         LET seconds == strip(line)
         IN  IF isdigit(seconds) /\ int(seconds) = ParseError
             THEN /\ svc_pc' = "done" /\ svc_exit' = "ValueError in int"
                  /\ EndMenu
                  /\ UNCHANGED <<store, ext_store>>
             ELSE /\ choice' = "6" /\ entered' = seconds
                  /\ UNCHANGED <<svc_pc, svc_exit>>
                  /\ IF isdigit(seconds) /\ int(seconds) > 0
                     THEN /\ menu_config' =
                               [menu_config EXCEPT
                                  !.confirmation_timeout_seconds = int(seconds)]
                          /\ save_config(menu_config')
                          /\ printed' = "Timeout updated."
                     ELSE /\ printed' = "Please enter a positive number of seconds."
                          /\ UNCHANGED <<menu_config, store, ext_store>>
    /\ UNCHANGED <<env_vars, now, config, alarm_time, target, wake, fresh_config,
                   n_sched, n_reload, cyc_vars, ti_vars>>

\* option 7, lines 234-238
prompt_update_toggle ==
    /\ svc_pc = "menu"
    /\ choice' = "7" /\ entered' = <<>>
    /\ menu_config' = [menu_config EXCEPT !.enabled = ~menu_config.enabled]
    /\ save_config(menu_config')
    /\ printed' = IF menu_config'.enabled THEN "Alarm enabled." ELSE "Alarm disabled."
    /\ UNCHANGED <<env_vars, now, svc_vars, cyc_vars, ti_vars>>

\* option 8, lines 239-241: run_alarm_service is called with a fresh load
prompt_update_start ==
    /\ svc_pc = "menu"
    /\ choice' = "8" /\ entered' = <<>> /\ printed' = ""
    /\ config' = load_config(store)
    /\ store' = load_config_file(store)
    /\ ext_store' = store'
    /\ svc_pc' = "entry"
    /\ UNCHANGED <<env_vars, menu_config, now, svc_exit, alarm_time, target, wake,
                   fresh_config, n_sched, n_reload, cyc_vars, ti_vars>>

\* line 241: run_alarm_service has returned to the menu; its locals are gone
prompt_update_resume ==
    /\ svc_pc = "done" /\ choice = "8"
    /\ svc_exit \in {"disabled_at_start", "disabled_while_waiting",
                     "disabled_after_completion"}
    /\ svc_pc' = "menu" /\ svc_exit' = "none"
    /\ config' = DEFAULT_CONFIG /\ fresh_config' = DEFAULT_CONFIG
    /\ alarm_time' = 0 /\ target' = 0 /\ wake' = 0 /\ n_sched' = 0 /\ n_reload' = 0
    /\ UNCHANGED <<store, ext_store, env_vars, menu_vars, now, cyc_vars, ti_vars>>

\* option 9, lines 242-244
prompt_update_exit ==
    /\ svc_pc = "menu"
    /\ svc_pc' = "done" /\ svc_exit' = "Goodbye!"
    /\ EndMenu
    /\ UNCHANGED <<store, ext_store, env_vars, now, config, alarm_time, target,
                   wake, fresh_config, n_sched, n_reload, cyc_vars, ti_vars>>

\* the menu and the services it starts, the file written by nothing else
InitMenu ==
    /\ store \in {Absent, DEFAULT_CONFIG} /\ ext_store = store
    /\ msvcrt = TRUE
    /\ user_lines = {<<>>} /\ NoMenu
    /\ now = FirstInstant
    /\ svc_pc = "main" /\ svc_exit = "none"
    /\ config = DEFAULT_CONFIG /\ fresh_config = DEFAULT_CONFIG
    /\ alarm_time = 0 /\ target = 0 /\ wake = 0 /\ n_sched = 0 /\ n_reload = 0
    /\ NoCycle
    /\ ti_idle

NextMenu ==
    \/ main_prompt_update
    \/ prompt_update_view
    \/ prompt_update_set_time
    \/ prompt_update_set_url
    \/ prompt_update_set_phrase
    \/ prompt_update_set_minutes
    \/ prompt_update_set_timeout
    \/ prompt_update_toggle
    \/ prompt_update_start
    \/ prompt_update_resume
    \/ prompt_update_exit
    \/ run_alarm_service_enter
    \/ run_alarm_service_schedule
    \/ wait_until
    \/ wait_until_wake
    \/ run_alarm_service_reload1
    \/ perform_alarm_cycle_enter
    \/ perform_alarm_cycle_trigger
    \/ perform_alarm_cycle_ack
    \/ countdown_timer
    \/ countdown_timer_wake
    \/ perform_alarm_cycle_challenge
    \/ run_alarm_service_reload2
    \/ KeyboardInterrupt
    \/ Tick

SpecMenu == InitMenu /\ [][NextMenu]_vars

(***************************************************************************)
(* load_config on its own: called twice in a row, nothing else writing the *)
(* file, for an absent file and for every file that holds some of the six  *)
(* fields of a sample record.                                              *)
(***************************************************************************)
Fields == {"enabled", "alarm_time", "youtube_url", "confirmation_phrase",
           "initial_wait_minutes", "confirmation_timeout_seconds"}

PartialRecords ==
    { [k \in S |-> rec[k]] :
        S \in SUBSET Fields, rec \in {r \in ExternalRecords : DOMAIN r = Fields} }

\* lines 25-33: the first call returns into config, the second into fresh_config
load_config_call ==
    /\ svc_pc \in {"load1", "load2"}
    /\ IF svc_pc = "load1"
       THEN config' = load_config(store) /\ fresh_config' = fresh_config
                                         /\ svc_pc' = "load2"
       ELSE fresh_config' = load_config(store) /\ config' = config
                                               /\ svc_pc' = "loaded"
    /\ store' = load_config_file(store)
    /\ UNCHANGED <<ext_store, env_vars, menu_vars, now, svc_exit, alarm_time,
                   target, wake, n_sched, n_reload, cyc_vars, ti_vars>>

InitLoad ==
    /\ store \in {Absent} \cup PartialRecords /\ ext_store = store
    /\ msvcrt = TRUE /\ user_lines = {<<>>} /\ NoMenu
    /\ now = FirstInstant
    /\ svc_pc = "load1" /\ svc_exit = "none"
    /\ config = DEFAULT_CONFIG /\ fresh_config = DEFAULT_CONFIG
    /\ alarm_time = 0 /\ target = 0 /\ wake = 0 /\ n_sched = 0 /\ n_reload = 0
    /\ NoCycle
    /\ ti_idle

NextLoad == load_config_call

SpecLoad == InitLoad /\ [][NextLoad]_vars

(***************************************************************************)
(* The challenge in its two halves: perform_alarm_cycle up to its call of  *)
(* timed_input, with every sample record, and timed_input from its call on, *)
(* step by step.                                                           *)
(***************************************************************************)
InitChallenge == InitCycle \/ InitInput

NextChallenge ==
    \/ perform_alarm_cycle_enter
    \/ perform_alarm_cycle_trigger
    \/ perform_alarm_cycle_ack
    \/ countdown_timer
    \/ countdown_timer_wake
    \/ perform_alarm_cycle_challenge
    \/ (ti_pc = "idle" /\ Tick)
    \/ timed_input_enter
    \/ timed_input_input
    \/ timed_input_poll
    \/ timed_input_wake
    \/ ClockTick
    \/ KeyPress

SpecChallenge == InitChallenge /\ [][NextChallenge]_vars

(***************************************************************************)
(* Properties.                                                             *)
(***************************************************************************)
\* s without its leading and trailing whitespace, by position
Trimmed(s) ==
    LET inner == {i \in 1..Len(s) : ~IsSpace(s[i])}
    IN  IF inner = {} THEN <<>>
        ELSE SubSeq(s, CHOOSE i \in inner : \A j \in inner : i <= j,
                       CHOOSE i \in inner : \A j \in inner : j <= i)

\* resp is a line that equals the configured phrase, character for character,
\* once the whitespace around each is dropped
Accepted(resp, phrase) == resp # None /\ Trimmed(resp) = Trimmed(phrase)

InCycle == cyc_pc \in {"ack_wait", "countdown", "countdown_sleep", "challenge",
                       "dismissed"}

\* C1: a cycle whose first N responses fail and whose next response matches
\* has opened the URL N + 1 times when it returns DISMISSED, each replay
\* re-opening the configured URL, and it returns in no other way: while it
\* replays it has opened the URL once per failure so far, and it is back in
\* run_alarm_service only as DISMISSED after a matching response.
C1_RetriggersUntilMatch ==
    /\ cyc_pc = "triggered" => n_trigger = n_fail
    /\ InCycle => /\ n_trigger = n_fail + 1
                  /\ browser.url = fresh_config.youtube_url
    /\ svc_pc = "reload2" => /\ cyc_pc = "dismissed"
                             /\ Accepted(response, fresh_config.confirmation_phrase)

\* C1 witness: DISMISSED after MaxReplays failures and MaxReplays + 1 triggers
C1_Witness ==
    /\ cyc_pc = "dismissed" /\ n_fail = MaxReplays /\ n_trigger = MaxReplays + 1
    /\ MaxReplays >= 2

\* C3: the challenge ends the cycle as DISMISSED exactly when the response is
\* a line (not TIMEOUT) equal to the configured phrase after trimming both,
\* case-sensitively; every other response replays from TRIGGERED.
C3_DismissedIffTrimmedMatch ==
    [][ (cyc_pc = "challenge" /\ cyc_pc' # "challenge")
        => IF Accepted(response', fresh_config.confirmation_phrase)
           THEN cyc_pc' = "dismissed"
           ELSE cyc_pc' = "triggered" /\ n_fail' = n_fail + 1 ]_vars

\* C3 witness: a response that differs from the phrase by surrounding blanks
\* only has been accepted, after a failed challenge
C3_Witness ==
    /\ cyc_pc = "dismissed" /\ n_fail >= 1
    /\ response = <<" ">> \o confirmation_phrase \o <<" ">>

\* C4: the computed occurrence is strictly after the clock reading, falls on
\* the alarm's time of day, and is today when the alarm time is still ahead
\* today and tomorrow otherwise (also when it is exactly now).
C4_NextOccurrence ==
    svc_pc = "wait" =>
        /\ target > now
        /\ target % Day = alarm_time * Minute
        /\ (alarm_time * Minute > now % Day => target \div Day = now \div Day)
        /\ (alarm_time * Minute <= now % Day => target \div Day = (now \div Day) + 1)

\* C4 witness: the alarm time is exactly now, and the occurrence is tomorrow
C4_Witness ==
    /\ svc_pc = "wait" /\ alarm_time * Minute = now % Day /\ target = now + Day

\* the service has been entered and has not been interrupted
Entered == svc_pc # "main" /\ svc_exit # "KeyboardInterrupt"

\* nothing of the loop has happened: no occurrence computed, no wait, no
\* reload, no cycle, no URL opened
LoopUntouched ==
    /\ n_sched = 0 /\ target = 0 /\ wake = 0 /\ n_reload = 0
    /\ cyc_pc = "idle" /\ n_trigger = 0 /\ browser = NoBrowser

\* C7: a service entered with a disabled config only ever returns, with
\* nothing of the loop done.
C7_DisabledAtStart ==
    (Entered /\ ~config.enabled) =>
        /\ svc_pc \in {"entry", "done"}
        /\ svc_pc = "done" => svc_exit = "disabled_at_start"
        /\ LoopUntouched

\* C7 witness: the service has returned because the config was disabled
C7_Witness == svc_pc = "done" /\ svc_exit = "disabled_at_start"

\* C8: a service entered with an enabled config whose alarm_time does not
\* parse only ever ends with the ValueError: nothing of the loop is done and
\* the file is as the last outside write left it.
C8_UnparsableAborts ==
    (Entered /\ config.enabled /\ parse_time_string(config.alarm_time) = ParseError) =>
        /\ svc_pc \in {"entry", "done"}
        /\ svc_pc = "done" => svc_exit = "ValueError"
        /\ LoopUntouched
        /\ store = ext_store

\* C8 witness: the service has ended with the ValueError
C8_Witness == svc_pc = "done" /\ svc_exit = "ValueError" /\ config.alarm_time = T_2599

\* the step is one of run_alarm_service leaving position pc
Leaves(pc) == svc_pc = pc /\ svc_pc' # pc /\ svc_exit' # "KeyboardInterrupt"

\* C2: when the file read at the reload after the wait says disabled (or is
\* absent, or names no enabled field), the service ends there, and no step
\* of a cycle is taken: nothing is opened.
C2_DisabledWhileWaiting ==
    [][ (Leaves("reload1") /\ ~load_config(store).enabled)
        => /\ svc_pc' = "done" /\ svc_exit' = "disabled_while_waiting"
           /\ cyc_pc' = "idle" /\ n_trigger' = 0 /\ browser' = NoBrowser ]_vars

\* C2 witness: the service ended at the reload after its second wait, the
\* first occurrence having run a whole cycle
C2_Witness ==
    svc_pc = "done" /\ svc_exit = "disabled_while_waiting" /\ n_sched = 2 /\ n_reload = 3

\* C10: the reload after a cycle ends the service when the file says disabled,
\* with no further occurrence computed or waited for, and otherwise goes on
\* to compute the next occurrence; a DISMISSED cycle is followed by that reload.
C10_ReloadAfterCycle ==
    /\ [](cyc_pc = "dismissed" => svc_pc = "reload2")
    /\ [][ Leaves("reload2")
           => /\ n_reload' = n_reload + 1
              /\ IF ~load_config(store).enabled
                 THEN /\ svc_pc' = "done" /\ svc_exit' = "disabled_after_completion"
                      /\ n_sched' = n_sched /\ target' = target /\ wake' = wake
                 ELSE svc_pc' = "schedule" ]_vars
    /\ [][ Leaves("schedule")
           => svc_pc' = "wait" /\ n_sched' = n_sched + 1 /\ target' > now ]_vars

\* C10 witness: a second occurrence has been computed after a completed cycle
C10_Witness == svc_pc = "wait" /\ n_sched = 2 /\ n_reload = 2

\* C9 as stated: the file is always as the last outside write left it
C9_ServiceNeverWrites == store = ext_store

\* C9, amended: the service never changes a file that exists; its only write
\* is load_config creating the default record when the file is absent.
C9_WritesOnlyDefaultsWhenAbsent ==
    /\ Exists(ext_store) => store = ext_store
    /\ ~Exists(ext_store) => store \in {Absent, DEFAULT_CONFIG}

\* C9 witness: two reloads have left a file holding one field as it was
C9_Witness ==
    /\ svc_pc = "schedule" /\ n_reload = 2
    /\ store = [enabled |-> TRUE] /\ ext_store = store

\* the instant the timeout of the call made at clock 0 elapses
Deadline == timeout_seconds

\* the call has run with a positive timeout and no key was pressed
NoInput == ti_pc # "call" /\ timeout_seconds > 0 /\ typed = <<>>

\* timed_input is over by Deadline + PollInterval, with None
ReturnsTimeoutInTime ==
    /\ clock <= Deadline + PollInterval
    /\ ti_pc = "returned" => ti_result = None /\ clock >= Deadline

\* C5 as stated: with a positive timeout and no input, timed_input returns
\* None no later than one poll interval after the deadline
C5_TimeoutWithinOnePoll == NoInput => ReturnsTimeoutInTime

\* C5, amended: the same where msvcrt is available; without it timed_input
\* falls back to input() and blocks.
C5_TimeoutWithinOnePollWithMsvcrt == (NoInput /\ msvcrt) => ReturnsTimeoutInTime

\* C5 witness: None returned after the deadline, within one poll interval
C5_Witness ==
    /\ NoInput /\ msvcrt /\ ti_pc = "returned" /\ ti_result = None
    /\ clock > Deadline /\ clock <= Deadline + PollInterval

\* C6: once timed_input, called with a positive timeout, has returned: if a
\* terminator was entered before the deadline the result is the line entered
\* before it, backspaces applied, and never None.
C6_LineWhenTerminatedInTime ==
    (ti_pc = "returned" /\ timeout_seconds > 0 /\ term_at # -1 /\ term_at < Deadline)
        => ti_result = EditLine(SubSeq(typed, 1, FirstTerminator(typed) - 1))

\* C11: two calls of load_config in a row, with no write from outside between
\* them, return the same record, whatever the file was before the first call:
\* absent, or holding any of the six fields.
C11_LoadTwiceSame ==
    /\ svc_pc = "loaded" => config = fresh_config
    /\ svc_pc \in {"load2", "loaded"} => config = load_config(store)

\* C11 witness: both calls have returned for a file that was absent before the
\* first; it now holds the defaults
C11_Witness ==
    /\ svc_pc = "loaded" /\ ~Exists(ext_store) /\ store = DEFAULT_CONFIG
    /\ fresh_config = DEFAULT_CONFIG

\* C12: a step of the menu that leaves an unparsable text as the line entered
\* at option 2 reports it and changes neither prompt_update's config nor the
\* file, and saves nothing; and whenever the menu changes alarm_time, the new
\* text is one parse_time_string accepts and the file holds the new config.
C12_UnparsableTimeRejected ==
    [][ /\ (choice' = "2" /\ parse_time_string(entered') = ParseError)
           => /\ menu_config' = menu_config
              /\ store' = store /\ ext_store' = ext_store
              /\ printed' = "Could not understand time."
        /\ (svc_pc = "menu" /\ svc_pc' = "menu"
                /\ menu_config'.alarm_time # menu_config.alarm_time)
           => /\ parse_time_string(menu_config'.alarm_time) # ParseError
              /\ store' = menu_config' ]_vars

\* C12 witness: "25:99" has been rejected after "7:30 PM" had been stored
C12_Witness ==
    /\ svc_pc = "menu" /\ choice = "2" /\ entered = T_2599
    /\ printed = "Could not understand time."
    /\ menu_config.alarm_time = T_730PM /\ store = menu_config

\* the data-model invariants of a stored record
ValidRecord(r) ==
    /\ DOMAIN r = Fields
    /\ parse_time_string(r.alarm_time) # ParseError
    /\ r.youtube_url # <<>>
    /\ r.confirmation_phrase # <<>>
    /\ r.initial_wait_minutes \in Nat
    /\ r.confirmation_timeout_seconds \in Nat \ {0}

\* C19: with the menu the only writer, from a first run or a default file, the
\* file and prompt_update's config always satisfy the data-model invariants,
\* so does the config every service is started with, and no service started
\* from the menu ends with the ValueError of an unparsable alarm time.
C19_MenuKeepsInvariants ==
    /\ svc_pc # "main" => ValidRecord(store)
    /\ svc_pc = "menu" => ValidRecord(menu_config)
    /\ choice = "8" => ValidRecord(config)
    /\ svc_exit # "ValueError"

\* C19 witness: a service started by option 8 waits for its occurrence, every
\* field having been changed through the menu
C19_Witness ==
    /\ svc_pc = "wait" /\ choice = "8" /\ config = store
    /\ config.alarm_time = T_730PM /\ config.youtube_url = <<"u", "2">>
    /\ config.confirmation_phrase = <<"a">>
    /\ config.initial_wait_minutes = 10
    /\ config.confirmation_timeout_seconds = 2

\* C13: whether or not the URL could be opened, the trigger step leads to
\* ACK_WAIT with the cycle otherwise as it was, and the cycle becomes DISMISSED
\* only by a challenge whose response matches the phrase.
C13_TriggerFailureNotFatal ==
    [][ /\ (cyc_pc = "triggered" /\ cyc_pc' # "triggered")
           => /\ cyc_pc' = "ack_wait" /\ svc_pc' = "cycle"
              /\ n_trigger' = n_trigger + 1
              /\ browser'.url = fresh_config.youtube_url
              /\ UNCHANGED <<confirmation_phrase, wait_minutes, confirm_timeout,
                             n_fail, fresh_config>>
        /\ (cyc_pc # "dismissed" /\ cyc_pc' = "dismissed")
           => /\ cyc_pc = "challenge"
              /\ Accepted(response', fresh_config.confirmation_phrase) ]_vars

\* C13 witness: the cycle is at the challenge of its second pass, the URL
\* having failed to open in this pass
C13_Witness ==
    /\ cyc_pc = "challenge" /\ n_fail = 1 /\ n_trigger = 2 /\ ~browser.ok

\* C14: the cycle moves TRIGGERED, ACK_WAIT, COUNTDOWN, CHALLENGE and from
\* there to DISMISSED or back to TRIGGERED; from ACK_WAIT it goes to COUNTDOWN
\* exactly when the configured initial wait is greater than zero and straight
\* to CHALLENGE otherwise; the countdown ends less than a second before its
\* end; at every challenge the URL was opened once more than challenges failed.
C14_CycleOrder ==
    /\ [](cyc_pc = "challenge" => n_trigger = n_fail + 1)
    /\ [][ cyc_pc' # cyc_pc =>
             CASE cyc_pc = "enter" -> cyc_pc' = "triggered"
               [] cyc_pc = "triggered" -> cyc_pc' = "ack_wait"
               [] cyc_pc = "ack_wait" ->
                    IF fresh_config.initial_wait_minutes > 0
                    THEN /\ cyc_pc' = "countdown"
                         /\ end_ts' = now + fresh_config.initial_wait_minutes * Minute
                    ELSE cyc_pc' = "challenge"
               [] cyc_pc = "countdown" ->
                    \/ cyc_pc' = "countdown_sleep" /\ now + Second <= end_ts
                    \/ cyc_pc' = "challenge" /\ now + Second > end_ts
               [] cyc_pc = "countdown_sleep" -> cyc_pc' = "countdown"
               [] cyc_pc = "challenge" -> cyc_pc' \in {"dismissed", "triggered"}
               [] OTHER -> FALSE ]_vars

\* C14 witness: the second pass of a cycle with a five-minute wait is at its
\* challenge, the countdown of this pass over
C14_Witness ==
    /\ cyc_pc = "challenge" /\ n_fail = 1 /\ wait_minutes = 5 /\ now > FirstInstant

\* C15: wait_until returns only when the clock reading is at or past target;
\* every sleep it starts lasts at least 1 and at most 60 seconds, it reads the
\* clock again when a sleep is over, and it does return.
C15_WaitUntil ==
    /\ [][ (svc_pc = "wait" /\ svc_pc' = "reload1") => now >= target ]_vars
    /\ [][ (svc_pc = "wait" /\ svc_pc' = "sleep")
           => /\ now < target
              /\ wake' - now >= 1 * Second /\ wake' - now <= 60 * Second ]_vars
    /\ [][ svc_pc = "sleep" => svc_pc' \in {"sleep", "wait"} ]_vars
    /\ (svc_pc = "wait") ~> (svc_pc = "reload1")

\* C15 witness: wait_until has returned for a target that was more than a
\* sleep ahead when it was called
C15_Witness ==
    /\ svc_pc = "reload1" /\ now >= target /\ target > NextInstant(FirstInstant) + Minute

\* C16: while a cycle is in progress a change of the file, a disablement
\* included, changes nothing of the cycle; the cycle is left only as DISMISSED
\* after a matching response, every other response replaying it; and a file
\* that says disabled ends the service at the reload after the cycle.
C16_DisableDuringCycle ==
    [][ /\ (svc_pc = "cycle" /\ store' # store)
           => svc_pc' = "cycle" /\ UNCHANGED <<cyc_vars, fresh_config, svc_exit>>
        /\ (svc_pc = "cycle" /\ svc_pc' # "cycle" /\ svc_exit' # "KeyboardInterrupt")
           => /\ svc_pc' = "reload2" /\ svc_exit' = "none"
              /\ cyc_pc = "challenge" /\ cyc_pc' = "dismissed"
              /\ Accepted(response', fresh_config.confirmation_phrase)
        /\ (svc_pc = "cycle" /\ cyc_pc = "challenge" /\ cyc_pc' # "challenge"
                /\ svc_exit' # "KeyboardInterrupt"
                /\ ~Accepted(response', fresh_config.confirmation_phrase))
           => cyc_pc' = "triggered" /\ svc_pc' = "cycle"
        /\ (Leaves("reload2") /\ ~load_config(store).enabled)
           => svc_pc' = "done" /\ svc_exit' = "disabled_after_completion" ]_vars

\* C16 witness: the cycle replays after a failed challenge although the file
\* says disabled
C16_Witness ==
    /\ svc_pc = "cycle" /\ cyc_pc = "ack_wait" /\ n_fail = 1 /\ n_trigger = 2
    /\ Exists(store) /\ ~load_config(store).enabled /\ fresh_config.enabled

\* run_alarm_service is in its loop
InLoop == svc_pc \in {"schedule", "wait", "sleep", "reload1", "cycle", "reload2"}

\* C17: every occurrence the loop computes is after the clock reading, at
\* most a day after it, and strictly after the occurrence computed before it;
\* a cycle runs only once the clock is at or past the occurrence it is for.
C17_TargetsIncrease ==
    /\ [](svc_pc \in {"reload1", "cycle", "reload2"} => now >= target)
    /\ [][ Leaves("schedule")
           => /\ target' > now /\ target' - now <= Day
              /\ target' % Day = alarm_time * Minute
              /\ n_sched' = n_sched + 1
              /\ n_sched >= 1 => target' > target ]_vars
    /\ [][ (InLoop /\ svc_pc # "schedule" /\ svc_exit' # "KeyboardInterrupt")
           => target' = target /\ n_sched' = n_sched ]_vars

\* C17 witness: the first cycle was dismissed at the very instant of its
\* occurrence, and the second occurrence is a day later
C17_Witness ==
    /\ svc_pc = "wait" /\ n_sched = 2 /\ n_reload = 2
    /\ now % Day = alarm_time * Minute /\ target = now + Day

\* C18: in the loop alarm_time is the parse of the alarm_time text of the
\* config the service was started with, which never changes, and every
\* occurrence falls on it; a cycle is called with the record loaded at the
\* reload after the wait, and that record, the phrase, the wait and the
\* timeout taken from it and the URL opened stay the same until it returns.
C18_ParsedOnceReloadedPerCycle ==
    /\ [](InLoop /\ n_sched >= 1 => target % Day = alarm_time * Minute)
    /\ [][ svc_exit' # "KeyboardInterrupt" =>
             /\ (svc_pc = "entry" /\ svc_pc' = "schedule")
                => alarm_time' = parse_time_string(config.alarm_time)
             /\ (svc_pc # "main") => config' = config
             /\ InLoop => alarm_time' = alarm_time
             /\ (svc_pc = "reload1" /\ svc_pc' = "cycle")
                => fresh_config' = load_config(store)
             /\ svc_pc = "cycle" => fresh_config' = fresh_config
             /\ (svc_pc = "cycle" /\ cyc_pc = "enter" /\ cyc_pc' # "enter")
                => /\ confirmation_phrase' = strip(fresh_config.confirmation_phrase)
                   /\ wait_minutes' = Max(0, fresh_config.initial_wait_minutes)
                   /\ confirm_timeout' =
                          Max(1, fresh_config.confirmation_timeout_seconds)
             /\ (svc_pc = "cycle" /\ cyc_pc # "enter" /\ svc_pc' = "cycle")
                => UNCHANGED <<confirmation_phrase, wait_minutes, confirm_timeout>>
             /\ (svc_pc = "cycle" /\ n_trigger' # n_trigger /\ svc_pc' = "cycle")
                => browser'.url = fresh_config.youtube_url ]_vars

\* C18 witness: the second pass of a cycle has opened the URL of the record
\* reloaded after the wait, the file now naming another URL and another time
C18_Witness ==
    /\ svc_pc = "cycle" /\ cyc_pc = "ack_wait" /\ n_trigger = 2
    /\ config.alarm_time = T_0700 /\ fresh_config.youtube_url = <<"u", "3">>
    /\ Exists(store) /\ load_config(store).alarm_time = T_730PM
    /\ load_config(store).youtube_url = <<"u", "2">>

\* C20: whatever the reloaded record holds as confirmation timeout, the
\* timeout the cycle passes to timed_input is at least 1 second and not less
\* than the configured one, so timed_input does not take its branch for
\* timeout <= 0 and, where msvcrt is available, takes the polling loop; and the
\* polling loop, called with a positive timeout, is never blocked in input()
\* and is over before one poll interval past the deadline, whatever is typed.
C20_ChallengeTimeoutBounded ==
    /\ cyc_pc \notin {"idle", "enter"}
       => /\ confirm_timeout >= 1
          /\ confirm_timeout >= fresh_config.confirmation_timeout_seconds
          /\ timed_input_branch(confirm_timeout, msvcrt) # "input"
          /\ msvcrt => timed_input_branch(confirm_timeout, msvcrt) = "poll"
    /\ (msvcrt /\ timeout_seconds > 0 /\ ti_pc \notin {"idle", "call"})
       => /\ ti_pc \in {"poll", "sleep", "returned"}
          /\ clock < Deadline + PollInterval
          /\ ti_pc = "sleep" => ti_wake < Deadline + PollInterval

\* C20 witness: the challenge of a cycle whose record holds a timeout of 0 is
\* reached with a timeout of 1 second, on a platform with msvcrt
C20_Witness ==
    /\ cyc_pc = "challenge" /\ msvcrt
    /\ fresh_config.confirmation_timeout_seconds = 0 /\ confirm_timeout = 1

====
